---- MODULE Spec2Model ----
(***************************************************************************)
(* Disk scheduling simulator (src/app.py): the four scheduling policies    *)
(* fcfs, sstf, scan and c_scan, the "Run Simulation" handler that runs the *)
(* selected policy and derives average seek and throughput, and the        *)
(* "Compare All Algorithms" handler that runs the four policies in turn.   *)
(*                                                                         *)
(* The request list is modelled after parsing (a sequence of integers).    *)
(* Python's true division is modelled by exact fractions [num, den].       *)
(***************************************************************************)
EXTENDS Integers, Sequences, FiniteSets, TLC

VARIABLES requests, head, disk_size,
          algo, scan_direction, cscan_direction,
          pc, err,
          order, total, avg_seek, throughput,
          request_list, results, orders, table

vars == <<requests, head, disk_size, algo, scan_direction, cscan_direction,
          pc, err, order, total, avg_seek, throughput,
          request_list, results, orders, table>>

inputs == <<requests, head, disk_size>>

(* ------------------------------ bounds --------------------------------- *)

\* longest request list enumerated exhaustively
MaxLen == 3

\* cylinder numbers the enumerated requests are drawn from: both boundaries of
\* a 100-cylinder disk, a head position, and a pair (43, 57) equidistant from
\* head 50
Cylinders == {0, 43, 50, 57, 99}

\* head positions: the lowest cylinder, one among the requests, and one above
\* every enumerated request (outside a 100-cylinder disk)
Heads == {0, 50, 150}

DiskSizes == {100, 200}

\* the worked example of the text-input default (line 80)
ExampleRequests == <<82, 170, 43, 140, 24, 16, 190>>

ExampleHead == 50

ExampleDiskSize == 200

RECURSIVE SeqsUpTo(_)
SeqsUpTo(n) ==
    IF n = 0 THEN {<<>>}
    ELSE LET shorter == SeqsUpTo(n - 1)
         IN  shorter \cup {Append(s, c) : s \in {t \in shorter : Len(t) = n - 1}, c \in Cylinders}

(* --------------------------- Python helpers ---------------------------- *)

None == "None"

abs(x) == IF x < 0 THEN -x ELSE x

\* sum(abs(order[i] - order[i - 1]) for i in range(1, len(order)))
RECURSIVE seek_sum(_, _)
seek_sum(o, i) ==
    IF i > Len(o) THEN 0
    ELSE abs(o[i] - o[i - 1]) + seek_sum(o, i + 1)

seek_total(o) == seek_sum(o, 2)

\* sorted(xs): ascending, by insertion
RECURSIVE insert_sorted(_, _)
insert_sorted(s, x) ==
    IF s = <<>> THEN <<x>>
    ELSE IF x < Head(s) THEN <<x>> \o s
    ELSE <<Head(s)>> \o insert_sorted(Tail(s), x)

RECURSIVE sorted(_)
sorted(xs) ==
    IF xs = <<>> THEN <<>>
    ELSE insert_sorted(sorted(SubSeq(xs, 1, Len(xs) - 1)), xs[Len(xs)])

\* xs[::-1]
reversed(xs) == [i \in 1..Len(xs) |-> xs[Len(xs) + 1 - i]]

\* the first element of greatest key
farthest(reqs, current) ==
    LET i == CHOOSE k \in 1..Len(reqs) :
                 /\ \A j \in 1..Len(reqs) : abs(reqs[k] - current) >= abs(reqs[j] - current)
                 /\ \A j \in 1..(k - 1) : abs(reqs[j] - current) < abs(reqs[k] - current)
    IN  reqs[i]

\* min(reqs, key=lambda x: abs(x - current)): the first element of least key
nearest(reqs, current) ==
    LET i == CHOOSE k \in 1..Len(reqs) :
                 /\ \A j \in 1..Len(reqs) : abs(reqs[k] - current) <= abs(reqs[j] - current)
                 /\ \A j \in 1..(k - 1) : abs(reqs[j] - current) > abs(reqs[k] - current)
    IN  reqs[i]

\* reqs.remove(x): drops the first occurrence
list_remove(reqs, x) ==
    LET i == CHOOSE k \in 1..Len(reqs) :
                 reqs[k] = x /\ \A j \in 1..(k - 1) : reqs[j] # x
    IN  SubSeq(reqs, 1, i - 1) \o SubSeq(reqs, i + 1, Len(reqs))

\* a / b
true_div(a, b) == [num |-> a, den |-> b]

Undefined == [num |-> 0, den |-> 0]

(* ------------------------------ policies ------------------------------- *)
\* Each policy yields the order, the total, and the caller's list object as
\* the call leaves it (field requests).

\* fcfs that services the requests in ascending order
fcfs_sorted(reqs, h) ==
    LET o == <<h>> \o sorted(reqs)
    IN  [order |-> o, total |-> seek_total(o), requests |-> reqs]

fcfs(reqs, h) ==
    LET o == <<h>> \o reqs
    IN  [order |-> o, total |-> seek_total(o), requests |-> reqs]

\* the while loop of sstf (lines 19-23)
RECURSIVE sstf_loop(_, _, _)
sstf_loop(reqs, o, current) ==
    IF reqs = <<>> THEN [order |-> o, reqs |-> reqs]
    ELSE LET n == nearest(reqs, current)
         IN  sstf_loop(list_remove(reqs, n), Append(o, n), n)

\* sstf that removes the visited entries from the caller's list
sstf_nocopy(reqs, h) ==
    LET r == sstf_loop(reqs, <<h>>, h)
    IN  [order |-> r.order, total |-> seek_total(r.order), requests |-> r.reqs]

sstf(reqs, h) ==
    LET copy == reqs
        r    == sstf_loop(copy, <<h>>, h)
    IN  [order |-> r.order, total |-> seek_total(r.order), requests |-> reqs]

\* scan that leaves the left side ascending
scan_noreverse(reqs, h, size, direction) ==
    LET left  == sorted(SelectSeq(reqs, LAMBDA r : r < h))
        right == sorted(SelectSeq(reqs, LAMBDA r : r >= h))
        o     == IF direction = "right"
                 THEN <<h>> \o right \o <<size - 1>> \o left
                 ELSE <<h>> \o left \o <<0>> \o right
    IN  [order |-> o, total |-> seek_total(o), requests |-> reqs]

scan(reqs, h, size, direction) ==
    LET left  == sorted(SelectSeq(reqs, LAMBDA r : r < h))
        right == sorted(SelectSeq(reqs, LAMBDA r : r >= h))
        o     == IF direction = "right"
                 THEN <<h>> \o right \o <<size - 1>> \o reversed(left)
                 ELSE <<h>> \o reversed(left) \o <<0>> \o right
    IN  [order |-> o, total |-> seek_total(o), requests |-> reqs]

\* c_scan with the two boundaries of the wrap exchanged
c_scan_swapped(reqs, h, size, direction) ==
    LET left  == sorted(SelectSeq(reqs, LAMBDA r : r < h))
        right == sorted(SelectSeq(reqs, LAMBDA r : r >= h))
        o     == IF direction = "right"
                 THEN <<h>> \o right \o <<0, size - 1>> \o left
                 ELSE <<h>> \o reversed(left) \o <<size - 1, 0>> \o reversed(right)
    IN  [order |-> o, total |-> seek_total(o), requests |-> reqs]

\* c_scan that does not add a boundary a request already sits on
c_scan_dedup(reqs, h, size, direction) ==
    LET left  == sorted(SelectSeq(reqs, LAMBDA r : r < h))
        right == sorted(SelectSeq(reqs, LAMBDA r : r >= h))
        top   == IF \E i \in 1..Len(reqs) : reqs[i] = size - 1 THEN <<>> ELSE <<size - 1>>
        bot   == IF \E i \in 1..Len(reqs) : reqs[i] = 0 THEN <<>> ELSE <<0>>
        o     == IF direction = "right"
                 THEN <<h>> \o right \o top \o bot \o left
                 ELSE <<h>> \o reversed(left) \o bot \o top \o reversed(right)
    IN  [order |-> o, total |-> seek_total(o), requests |-> reqs]

\* c_scan that jumps from the last request of one side to the other side
\* without travelling to the boundaries
c_scan_nowrap(reqs, h, size, direction) ==
    LET left  == sorted(SelectSeq(reqs, LAMBDA r : r < h))
        right == sorted(SelectSeq(reqs, LAMBDA r : r >= h))
        o     == IF direction = "right"
                 THEN <<h>> \o right \o left
                 ELSE <<h>> \o reversed(left) \o reversed(right)
    IN  [order |-> o, total |-> seek_total(o), requests |-> reqs]

c_scan(reqs, h, size, direction) ==
    LET left  == sorted(SelectSeq(reqs, LAMBDA r : r < h))
        right == sorted(SelectSeq(reqs, LAMBDA r : r >= h))
        o     == IF direction = "right"
                 THEN <<h>> \o right \o <<size - 1, 0>> \o left
                 ELSE <<h>> \o reversed(left) \o <<0, size - 1>> \o reversed(right)
    IN  [order |-> o, total |-> seek_total(o), requests |-> reqs]

(* -------------------------------- UI ----------------------------------- *)

\* the algorithms dict, in insertion order
algorithms == <<"FCFS", "SSTF", "SCAN", "C-SCAN">>

\* what st.selectbox hands back for the direction widgets: the selected
\* option, or None when nothing is selected (the case the guard in
\* get_algorithm_callable is written for)
selectbox_direction == {"right", "left", None}

\* algorithms[name](requests, head) for the two-argument policies
call_algorithm(name, reqs, h) ==
    IF name = "FCFS" THEN fcfs(reqs, h) ELSE sstf(reqs, h)

\* total // len(requests)
avg_seek_floor(t, n) == true_div(t \div n, 1)

\* avg_seek = total / len(requests)
avg_seek_of(t, n) == true_div(t, n)

\* throughput = len(requests) / total if total != 0 else 0

throughput_of(t, n) == IF t # 0 THEN true_div(n, t) ELSE true_div(0, 1)

Cleared ==
    /\ order = <<>> /\ total = -1
    /\ avg_seek = Undefined /\ throughput = Undefined
    /\ request_list = <<>> /\ results = <<>> /\ orders = <<>> /\ table = <<>>

\* a fresh script run shows no result
ClearOutputs ==
    /\ order' = <<>> /\ total' = -1
    /\ avg_seek' = Undefined /\ throughput' = Undefined
    /\ request_list' = <<>> /\ results' = <<>> /\ orders' = <<>> /\ table' = <<>>

Init ==
    /\ \/ /\ requests \in SeqsUpTo(MaxLen)
          /\ head \in Heads
          /\ disk_size \in DiskSizes
       \/ /\ requests = ExampleRequests
          /\ head = ExampleHead
          /\ disk_size = ExampleDiskSize
    /\ algo = algorithms[1]
    /\ scan_direction = None
    /\ cscan_direction = None
    /\ pc = "idle"
    /\ err = ""
    /\ Cleared

\* a script run in which no button is pressed: the algorithm selectbox and the
\* direction selectors
SelectAlgorithm ==
    \E a \in {algorithms[i] : i \in 1..Len(algorithms)}, d \in selectbox_direction :
        /\ algo' = a
        /\ scan_direction' = IF a = "SCAN" THEN d ELSE None
        /\ cscan_direction' = IF a = "C-SCAN" THEN d ELSE None
        /\ (a \notin {"SCAN", "C-SCAN"} => d = None)
        /\ pc' = "idle"
        /\ err' = ""
        /\ ClearOutputs
        /\ UNCHANGED inputs

\* the "Run Simulation" button
RunSimulation ==
    \E r \in {IF algo = "SCAN" THEN scan(requests, head, disk_size, scan_direction)
              ELSE IF algo = "C-SCAN" THEN c_scan(requests, head, disk_size, cscan_direction)
              ELSE call_algorithm(algo, requests, head)} :
    LET n == Len(r.requests)
    IN  /\ order' = r.order
        /\ total' = r.total
        /\ requests' = r.requests
        /\ IF n = 0
           THEN /\ pc' = "failed"
                /\ err' = "ZeroDivisionError"
                /\ avg_seek' = Undefined
                /\ throughput' = Undefined
           ELSE /\ pc' = "ran"
                /\ err' = ""
                /\ avg_seek' = avg_seek_of(r.total, n)
                /\ throughput' = throughput_of(r.total, n)
        /\ request_list' = <<>> /\ results' = <<>> /\ orders' = <<>> /\ table' = <<>>
        /\ UNCHANGED <<head, disk_size, algo, scan_direction, cscan_direction>>

\* the for loop of "Compare All Algorithms" (lines 171-180)
RECURSIVE compare_loop(_, _, _, _, _, _)
compare_loop(i, rl, h, size, res, ords) ==
    IF i > Len(algorithms) THEN [request_list |-> rl, results |-> res, orders |-> ords]
    ELSE LET name == algorithms[i]
             r == IF name = "SCAN" THEN scan(rl, h, size, "right")
                  ELSE IF name = "C-SCAN" THEN c_scan(rl, h, size, "right")
                  ELSE call_algorithm(name, rl, h)
         IN  compare_loop(i + 1, r.requests, h, size,
                          Append(res, [name |-> name, total |-> r.total]),
                          Append(ords, [name |-> name, order |-> r.order]))

\* the "Compare All Algorithms" button
CompareAll ==
    \E c \in {compare_loop(1, requests, head, disk_size, <<>>, <<>>)} :
    LET n == Len(c.request_list)
    IN  /\ request_list' = c.request_list
        /\ requests' = c.request_list
        /\ results' = c.results
        /\ orders' = c.orders
        /\ IF n = 0
           THEN /\ pc' = "failed"
                /\ err' = "ZeroDivisionError"
                /\ table' = <<>>
           ELSE /\ pc' = "compared"
                /\ err' = ""
                /\ table' = [i \in 1..Len(c.results) |->
                               [Algorithm  |-> c.results[i].name,
                                Total      |-> c.results[i].total,
                                Avg        |-> avg_seek_of(c.results[i].total, n),
                                Throughput |-> throughput_of(c.results[i].total, n)]]
        /\ order' = <<>> /\ total' = -1
        /\ avg_seek' = Undefined /\ throughput' = Undefined
        /\ UNCHANGED <<head, disk_size, algo, scan_direction, cscan_direction>>

\* the "Reset" button: st.rerun()
Reset ==
    /\ pc # "idle"
    /\ pc' = "idle"
    /\ err' = ""
    /\ ClearOutputs
    /\ UNCHANGED <<inputs, algo, scan_direction, cscan_direction>>

Next ==
    \/ SelectAlgorithm
    \/ RunSimulation
    \/ CompareAll
    \/ Reset

Spec == Init /\ [][Next]_vars

(* ------------------------- properties checked -------------------------- *)

\* number of occurrences of v in s
Count(v, s) == Cardinality({i \in 1..Len(s) : s[i] = v})

Values(s) == {s[i] : i \in 1..Len(s)}

SameMultiset(s, t) == \A v \in Values(s) \cup Values(t) : Count(v, s) = Count(v, t)

IsAscending(s) == \A i \in 1..(Len(s) - 1) : s[i] <= s[i + 1]

IsDescending(s) == \A i \in 1..(Len(s) - 1) : s[i] >= s[i + 1]

\* distance travelled along o, summed from its far end
RECURSIVE PathLength(_)
PathLength(o) ==
    IF Len(o) <= 1 THEN 0
    ELSE PathLength(SubSeq(o, 1, Len(o) - 1)) + abs(o[Len(o)] - o[Len(o) - 1])

\* equality of two fractions with non-zero denominators
RatEq(x, y) == x.num * y.den = y.num * x.den

\* "Run Simulation" has run policy a and left its order in the state
RanPolicy(a) == order # <<>> /\ algo = a

NumRight == Cardinality({i \in 1..Len(requests) : requests[i] >= head})

NumLeft == Cardinality({i \in 1..Len(requests) : requests[i] < head})

AllBelowHead(s) == \A i \in 1..Len(s) : s[i] < head

AllAtOrAboveHead(s) == \A i \in 1..Len(s) : s[i] >= head

InRange ==
    /\ head \in 0..(disk_size - 1)
    /\ \A i \in 1..Len(requests) : requests[i] \in 0..(disk_size - 1)

IsExample ==
    /\ requests = ExampleRequests
    /\ head = ExampleHead
    /\ disk_size = ExampleDiskSize

\* C1: after an SSTF run the order starts at the head, services exactly the
\* requests, and at every step the request serviced is at least as close to
\* the previous position as every request not yet serviced; on the worked
\* example the first request serviced is 43.
C1_SstfGreedy ==
    RanPolicy("SSTF") =>
        /\ order[1] = head
        /\ SameMultiset(Tail(order), requests)
        /\ \A i \in 2..Len(order) : \A j \in i..Len(order) :
               abs(order[i] - order[i - 1]) <= abs(order[j] - order[i - 1])
        /\ (IsExample => order[2] = 43)

C1_Witness ==
    /\ RanPolicy("SSTF")
    /\ IsExample
    /\ order = <<50, 43, 24, 16, 82, 140, 170, 190>>

\* o is the toward-higher SCAN order: head, the requests at or above the head
\* ascending, size-1, the requests below the head descending
ScanTowardHigher(o) ==
    LET right == SubSeq(o, 2, NumRight + 1)
        left  == SubSeq(o, NumRight + 3, Len(o))
    IN  /\ Len(o) = Len(requests) + 2
        /\ o[1] = head
        /\ o[NumRight + 2] = disk_size - 1
        /\ IsAscending(right) /\ AllAtOrAboveHead(right)
        /\ IsDescending(left) /\ AllBelowHead(left)
        /\ SameMultiset(right \o left, requests)

\* o is the toward-lower SCAN order: head, the requests below the head
\* descending, 0, the requests at or above the head ascending
ScanTowardLower(o) ==
    LET left  == SubSeq(o, 2, NumLeft + 1)
        right == SubSeq(o, NumLeft + 3, Len(o))
    IN  /\ Len(o) = Len(requests) + 2
        /\ o[1] = head
        /\ o[NumLeft + 2] = 0
        /\ IsDescending(left) /\ AllBelowHead(left)
        /\ IsAscending(right) /\ AllAtOrAboveHead(right)
        /\ SameMultiset(left \o right, requests)

\* C2: a SCAN run with direction "right" yields head, right ascending, size-1,
\* left descending; with direction "left" it yields head, left descending, 0,
\* right ascending; the two sides are contiguous blocks.
C2_ScanOrder ==
    RanPolicy("SCAN") =>
        /\ (scan_direction = "right" => ScanTowardHigher(order))
        /\ (scan_direction = "left" => ScanTowardLower(order))

C2_Witness ==
    /\ RanPolicy("SCAN")
    /\ scan_direction = "left"
    /\ IsExample
    /\ order = <<50, 43, 24, 16, 0, 82, 140, 170, 190>>

\* o is the toward-higher C-SCAN order: head, right ascending, size-1, 0, left
\* ascending
CScanTowardHigher(o) ==
    LET right == SubSeq(o, 2, NumRight + 1)
        left  == SubSeq(o, NumRight + 4, Len(o))
    IN  /\ Len(o) = Len(requests) + 3
        /\ o[1] = head
        /\ o[NumRight + 2] = disk_size - 1
        /\ o[NumRight + 3] = 0
        /\ IsAscending(right) /\ AllAtOrAboveHead(right)
        /\ IsAscending(left) /\ AllBelowHead(left)
        /\ SameMultiset(right \o left, requests)

\* o is the toward-lower C-SCAN order: head, left descending, 0, size-1, right
\* descending
CScanTowardLower(o) ==
    LET left  == SubSeq(o, 2, NumLeft + 1)
        right == SubSeq(o, NumLeft + 4, Len(o))
    IN  /\ Len(o) = Len(requests) + 3
        /\ o[1] = head
        /\ o[NumLeft + 2] = 0
        /\ o[NumLeft + 3] = disk_size - 1
        /\ IsDescending(left) /\ AllBelowHead(left)
        /\ IsDescending(right) /\ AllAtOrAboveHead(right)
        /\ SameMultiset(left \o right, requests)

\* C3: a C-SCAN run with direction "right" yields head, right ascending,
\* size-1, 0, left ascending; with direction "left" it yields head, left
\* descending, 0, size-1, right descending; both boundaries are in every
\* order, next to each other and in wrap order.
C3_CScanOrder ==
    RanPolicy("C-SCAN") =>
        /\ (cscan_direction = "right" => CScanTowardHigher(order))
        /\ (cscan_direction = "left" => CScanTowardLower(order))
        /\ \E i \in 2..(Len(order) - 1) :
               <<order[i], order[i + 1]>> \in {<<disk_size - 1, 0>>, <<0, disk_size - 1>>}

C3_Witness ==
    /\ RanPolicy("C-SCAN")
    /\ cscan_direction = "right"
    /\ IsExample
    /\ order = <<50, 82, 140, 170, 190, 199, 0, 16, 24, 43>>

\* C4: an FCFS run yields the head followed by the requests exactly as given,
\* its total is the distance travelled along that order, and on the worked
\* example the total is 642.
C4_FcfsOrder ==
    RanPolicy("FCFS") =>
        /\ order = <<head>> \o requests
        /\ total = PathLength(<<head>> \o requests)
        /\ (IsExample => total = 642)

C4_Witness ==
    /\ RanPolicy("FCFS")
    /\ IsExample
    /\ total = 642

\* boundary sentinels a policy adds to the requests
Sentinels(a) ==
    IF a = "SCAN" THEN {<<disk_size - 1>>, <<0>>}
    ELSE IF a = "C-SCAN" THEN {<<disk_size - 1, 0>>}
    ELSE {<<>>}

\* C5: whatever the policy and the input, the order starts at the head and its
\* rest is the requests plus the policy's boundary sentinels as a multiset
\* (none for FCFS and SSTF, one of 0 and size-1 for SCAN, both for C-SCAN), so
\* its length is 1, 2 or 3 more than the number of requests.
C5_ResultShape ==
    order # <<>> =>
        /\ order[1] = head
        /\ \E b \in Sentinels(algo) : SameMultiset(Tail(order), requests \o b)
        /\ Len(order) = Len(requests)
                        + (IF algo = "SCAN" THEN 2 ELSE IF algo = "C-SCAN" THEN 3 ELSE 1)

\* a C-SCAN run with an empty left side and requests on both boundaries
C5_Witness ==
    /\ RanPolicy("C-SCAN")
    /\ head = 0
    /\ disk_size = 100
    /\ requests = <<99, 0>>
    /\ Len(order) = 5

\* the average and throughput reported for total t over count k are t / k and
\* k / t, the throughput being 0 when t is 0
CostOver(avg, thr, t, k) ==
    /\ RatEq(avg, true_div(t, k))
    /\ IF t = 0 THEN thr.num = 0 ELSE RatEq(thr, true_div(k, t))

\* C6 as stated: every reported average is total / (len(order) - 1) and every
\* reported throughput is (len(order) - 1) / total, or 0 when the total is 0,
\* for all four policies, in the single run and in the comparison table.
C6_CostOverOrderLength ==
    /\ pc = "ran" =>
           /\ total = PathLength(order)
           /\ CostOver(avg_seek, throughput, total, Len(order) - 1)
    /\ pc = "compared" =>
           \A i \in 1..Len(table) :
               /\ table[i].Total = PathLength(orders[i].order)
               /\ CostOver(table[i].Avg, table[i].Throughput, table[i].Total,
                           Len(orders[i].order) - 1)

\* boundary sentinels in the order of policy a
NumSentinels(a) == IF a = "SCAN" THEN 1 ELSE IF a = "C-SCAN" THEN 2 ELSE 0

\* C6 amended: every reported average is total / len(requests) and every
\* reported throughput is len(requests) / total, or 0 when the total is 0,
\* where len(requests) is len(order) - 1 less the boundary sentinels of the
\* policy (none for FCFS and SSTF, one for SCAN, two for C-SCAN), and total is
\* the distance travelled along the order.
C6_CostOverRequestCount ==
    /\ pc = "ran" =>
           /\ total = PathLength(order)
           /\ Len(requests) = Len(order) - 1 - NumSentinels(algo)
           /\ CostOver(avg_seek, throughput, total, Len(requests))
    /\ pc = "compared" =>
           \A i \in 1..Len(table) :
               /\ table[i].Total = PathLength(orders[i].order)
               /\ Len(requests) = Len(orders[i].order) - 1 - NumSentinels(table[i].Algorithm)
               /\ CostOver(table[i].Avg, table[i].Throughput, table[i].Total,
                           Len(requests))

\* a SCAN run of non-zero total, whose order is two longer than the requests
C6_Witness ==
    /\ pc = "ran"
    /\ algo = "SCAN"
    /\ requests = <<43, 57>>
    /\ head = 50
    /\ disk_size = 100
    /\ scan_direction = "right"
    /\ total = 105
    /\ avg_seek = [num |-> 105, den |-> 2]
    /\ throughput = [num |-> 2, den |-> 105]

PolicyNames == <<"FCFS", "SSTF", "SCAN", "C-SCAN">>

\* policy name run alone on reqs, SCAN and C-SCAN toward higher cylinders
Alone(name, reqs) ==
    IF name = "FCFS" THEN fcfs(reqs, head)
    ELSE IF name = "SSTF" THEN sstf(reqs, head)
    ELSE IF name = "SCAN" THEN scan(reqs, head, disk_size, "right")
    ELSE c_scan(reqs, head, disk_size, "right")

\* C9: every step that fills the comparison leaves the request list as it
\* was and yields four entries named FCFS, SSTF, SCAN, C-SCAN in that order,
\* each holding the order and total of that policy run alone on the request
\* list as it was before the step, SCAN and C-SCAN in their toward-higher
\* order.
C9_CompareAll ==
    [][orders' # <<>> =>
          /\ requests' = requests
          /\ request_list' = requests
          /\ Len(orders') = 4
          /\ Len(results') = 4
          /\ \A i \in 1..4 :
                 /\ orders'[i].name = PolicyNames[i]
                 /\ results'[i].name = PolicyNames[i]
                 /\ orders'[i].order = Alone(PolicyNames[i], requests).order
                 /\ results'[i].total = Alone(PolicyNames[i], requests).total
          /\ ScanTowardHigher(orders'[3].order)
          /\ CScanTowardHigher(orders'[4].order)]_vars

C9_Witness ==
    /\ pc = "compared"
    /\ IsExample
    /\ Len(orders) = 4
    /\ orders[2].order = <<50, 43, 24, 16, 82, 140, 170, 190>>
    /\ orders[3].order = <<50, 82, 140, 170, 190, 199, 43, 24, 16>>
    /\ results[4].total = 391

\* C10: with the head and every request inside [0, size-1] and the same
\* direction ("right" or "left") for both, the total of a C-SCAN run is at
\* least the total scan returns for the same input, and the total of a SCAN
\* run is at most the total c_scan returns.
C10_CScanAtLeastScan ==
    /\ (RanPolicy("C-SCAN") /\ InRange /\ cscan_direction \in {"right", "left"}) =>
           total >= scan(requests, head, disk_size, cscan_direction).total
    /\ (RanPolicy("SCAN") /\ InRange /\ scan_direction \in {"right", "left"}) =>
           c_scan(requests, head, disk_size, scan_direction).total >= total

\* an in-range C-SCAN run toward lower cylinders that costs more than SCAN
C10_Witness ==
    /\ RanPolicy("C-SCAN")
    /\ InRange
    /\ cscan_direction = "left"
    /\ requests # <<>>
    /\ total > scan(requests, head, disk_size, cscan_direction).total

====
